---- MODULE Spec2Model ----
(***************************************************************************)
(* A model of the two modules of beat:                                     *)
(*   src/src/backend.py  the Text trace backend (one CSV file per chain)   *)
(*   src/src/utility.py  ListArrayOrdering / ListToArrayBijection,         *)
(*                       apply_station_blacklist, downsample_traces        *)
(* Each component has its own specification (SpecText, SpecBijection,      *)
(* SpecStations, SpecTraces) over its own variables.                       *)
(***************************************************************************)
EXTENDS Integers, Sequences, FiniteSets, TLC

VARIABLES
    \* ---- backend.py, class Text -------------------------------------
    chain,      \* self.chain: None or Some(c)
    filename,   \* self.filename: None or Some(c), standing for <name>/chain-<c>.csv
    fh,         \* self._fh: None or Some(file object)
    df,         \* self.df: None or Some(table)
    disk,       \* the trace directory: chain number -> [exists, lines]
    unref,      \* file objects the trace opened and no longer refers to, not yet finalised
    ret,        \* what the last call returned or raised
    written,    \* history: per chain file, the rows write() was called with, in call order
    nSetup,     \* number of setup calls so far
    nRecord,    \* number of record calls so far
    \* ---- utility.py, ListArrayOrdering / ListToArrayBijection --------
    arrays,     \* the caller's list of arrays
    ordering,   \* None or Some(ListArrayOrdering(arrays))
    bijection,  \* None or Some(ListToArrayBijection(ordering, arrays))
    a_flat,     \* None or Some(what fmap returned)
    a_back,     \* None or Some(what rmap returned)
    \* ---- utility.py, apply_station_blacklist -------------------------
    stations,   \* the caller's list of stations, which the call changes in place
    blacklist,  \* the station names to throw out
    st_before,  \* history: the caller's list as it was before the call
    st_ret,     \* what the call returned or raised
    \* ---- utility.py, downsample_traces -------------------------------
    data_traces,    \* the caller's list of waveform traces
    deltat,         \* the target sampling interval: None or Some(d)
    tr_before,      \* history: data_traces as it was before the call
    tr_next,        \* the position the for loop is at
    tr_log,         \* history: the positions downsample_to was called on, in call order
    tr_pc           \* "loop", "done" (returned) or "raised"

textVars == <<chain, filename, fh, df, disk, unref, ret, written, nSetup, nRecord>>

bijVars == <<arrays, ordering, bijection, a_flat, a_back>>

stationVars == <<stations, blacklist, st_before, st_ret>>

traceVars == <<data_traces, deltat, tr_before, tr_next, tr_log, tr_pc>>

vars == <<textVars, bijVars, stationVars, traceVars>>

notText == <<bijVars, stationVars, traceVars>>
notBijection == <<textVars, stationVars, traceVars>>
notStations == <<textVars, bijVars, traceVars>>
notTraces == <<textVars, bijVars, stationVars>>

(***************************************************************************)
(* Bounds of the model.                                                    *)
(***************************************************************************)
MaxSetups == 3     \* setup calls per run
MaxRecords == 2    \* record calls per run

\* The chain numbers setup is called with.
Chains == {0, 1}

(***************************************************************************)
(* Optional values: None, or Some(v).                                      *)
(***************************************************************************)
None == <<>>
Some(v) == <<v>>
The(o) == o[1]

(***************************************************************************)
(* Trace metadata of a trace over a scalar x and a shape-(2,) y            *)
(* (BaseATMCMCTrace.__init__, Text.__init__).                              *)
(***************************************************************************)
varnames == <<"x", "y">>

var_shapes == [v \in {"x", "y"} |-> IF v = "x" THEN <<>> ELSE <<2>>]

\* ttab.create_flat_names(v, shape): the bare name for a scalar, name__i for
\* every index i of a one-dimensional variable.  A label is [var, ix].
create_flat_names(v, shape) ==
    IF shape = <<>>
        THEN << [var |-> v, ix |-> <<>>] >>
        ELSE [i \in 1..shape[1] |-> [var |-> v, ix |-> <<i - 1>>]]

flat_names == [v \in {"x", "y"} |-> create_flat_names(v, var_shapes[v])]

RECURSIVE Concat(_)
Concat(ss) == IF ss = <<>> THEN <<>> ELSE Head(ss) \o Concat(Tail(ss))

\* cnames = [fv for v in self.varnames for fv in self.flat_names[v]]
cnames == Concat([i \in 1..Len(varnames) |-> flat_names[varnames[i]]])

(***************************************************************************)
(* Text lines.  A line is the sequence of its comma-separated fields.      *)
(* ','.join(fields) of no field is the empty line, and ''.split(',') is    *)
(* the one empty field.                                                    *)
(***************************************************************************)
EmptyField == [var |-> "", ix |-> <<>>]

JoinLine(fields) == fields

SplitLine(line) == IF line = <<>> THEN <<EmptyField>> ELSE line

\* str(value.ravel()): the text numpy prints for a one-dimensional array,
\* "[v1 v2 ...]": brackets, blanks between the elements, no comma.
StrRavel(value) == [kind |-> "arraystr", elems |-> value]

\* The text of one number, as a CSV cell.
NumText(v) == [kind |-> "num", elems |-> <<v>>]

NaN == [kind |-> "nan", elems |-> <<>>]

(***************************************************************************)
(* The points handed to record: a sequence aligned with varnames, each     *)
(* value given by its flattened (ravel) elements.                          *)
(***************************************************************************)
Points == { << <<1>>, <<1, 2>> >>, << <<2>>, <<2, 3>> >> }

\* columns = [str(value.ravel()) for varname, value in zip(self.varnames, point)]
Min(a, b) == IF a < b THEN a ELSE b

RecordColumns(point) ==
    [i \in 1..Min(Len(varnames), Len(point)) |-> StrRavel(point[i])]

(***************************************************************************)
(* Files.  A chain file written earlier by a trace over the single scalar  *)
(* variable x has the header x and that trace's rows.                      *)
(***************************************************************************)
NoFile == [exists |-> FALSE, lines |-> <<>>]

OtherHeader == create_flat_names("x", <<>>)

OtherRows == << <<StrRavel(<<1>>)>> >>

OtherFile == [exists |-> TRUE, lines |-> <<JoinLine(OtherHeader)>> \o OtherRows]

\* A file object: the chain file it was opened on, its mode, and the lines
\* written to it that are still in its buffer.
FileObject(c, mode, buf) == [chain |-> c, mode |-> mode, buf |-> buf]

\* What writing out a buffer does to the file: mode 'a' writes at the end,
\* mode 'w' at the object's own position, which is the start of the file as
\* nothing was written out before.
Flushed(file, h) ==
    IF h.mode = "a"
        THEN [file EXCEPT !.lines = @ \o h.buf]
        ELSE [file EXCEPT !.lines =
                 h.buf \o SubSeq(@, Len(h.buf) + 1, Len(@))]

FlushTo(d, h) == [d EXCEPT ![h.chain] = Flushed(@, h)]

\* What a call did: it returned val, or raised exc.  arg holds its arguments.
Returned(op, arg, val) == [op |-> op, arg |-> arg, exc |-> "", val |-> val]
Raised(op, arg, exc) == [op |-> op, arg |-> arg, exc |-> exc, val |-> <<>>]

(***************************************************************************)
(* Text.setup(draws, chain).  The result names the new value of every      *)
(* field setup may change.                                                 *)
(***************************************************************************)
\* Binding self._fh to a new file object: the previous one, if any, is no
\* longer referred to.  setup does not close it.
Rebound(h) == [fh |-> Some(h), unref |-> unref \o fh]

\* The file does not exist: open(filename, 'w') creates it, and the header
\* line is written to the file object.
SetupCreate(c) ==
    LET h == FileObject(c, "w", <<JoinLine(cnames)>>) IN
    [fh |-> Rebound(h).fh, unref |-> Rebound(h).unref,
     disk |-> [disk EXCEPT ![c] = [exists |-> TRUE, lines |-> <<>>]],
     ret |-> Returned("setup", <<c>>, <<>>)]

\* The file exists and has no line: next(fh) raises StopIteration.
SetupNoHeader(c) ==
    [fh |-> fh, unref |-> unref, disk |-> disk,
     ret |-> Raised("setup", <<c>>, "StopIteration")]

\* prev_cnames != cnames: raise base.BackendError.
SetupMismatch(c) ==
    [fh |-> fh, unref |-> unref, disk |-> disk,
     ret |-> Raised("setup", <<c>>, "BackendError")]

\* The header matches: open(filename, 'a').
SetupAppend(c) ==
    LET h == FileObject(c, "a", <<>>) IN
    [fh |-> Rebound(h).fh, unref |-> Rebound(h).unref, disk |-> disk,
     ret |-> Returned("setup", <<c>>, <<>>)]

\* prev_cnames = next(fh).strip().split(',')
prev_cnames(c) == SplitLine(Head(disk[c].lines))

\* A variant that opens the file for writing before the header is compared,
\* which empties it.
setup_truncating(c) ==
    IF ~disk[c].exists THEN SetupCreate(c)
    ELSE IF disk[c].lines = <<>> THEN SetupNoHeader(c)
    ELSE IF prev_cnames(c) # cnames
        THEN [SetupMismatch(c) EXCEPT
                 !.disk = [disk EXCEPT ![c] = [exists |-> TRUE, lines |-> <<>>]]]
    ELSE SetupAppend(c)

setup(c) ==
    IF ~disk[c].exists THEN SetupCreate(c)
    ELSE IF disk[c].lines = <<>> THEN SetupNoHeader(c)
    ELSE IF prev_cnames(c) # cnames THEN SetupMismatch(c)
    ELSE SetupAppend(c)

Setup(c) ==
    /\ nSetup < MaxSetups
    /\ nSetup' = nSetup + 1
    /\ chain' = Some(c)
    /\ filename' = Some(c)
    /\ fh' = setup(c).fh
    /\ unref' = setup(c).unref
    /\ disk' = setup(c).disk
    /\ ret' = setup(c).ret
    /\ UNCHANGED <<df, written, nRecord>>
    /\ UNCHANGED notText

(***************************************************************************)
(* Text.record(point)                                                      *)
(***************************************************************************)
record(point) ==
    IF fh = None
        THEN [fh |-> fh, ret |-> Raised("record", <<>>, "AttributeError")]
        ELSE [fh |-> Some([The(fh) EXCEPT
                              !.buf = @ \o <<JoinLine(RecordColumns(point))>>]),
              ret |-> Returned("record", <<>>, <<>>)]

Record(point) ==
    /\ nRecord < MaxRecords
    /\ nRecord' = nRecord + 1
    /\ fh' = record(point).fh
    /\ ret' = record(point).ret
    /\ written' = IF fh = None THEN written
                  ELSE [written EXCEPT ![The(fh).chain] =
                           @ \o <<JoinLine(RecordColumns(point))>>]
    /\ UNCHANGED <<chain, filename, df, disk, unref, nSetup>>
    /\ UNCHANGED notText

(***************************************************************************)
(* Text.close(): self._fh.close() writes the buffer out, and the field is  *)
(* cleared.                                                                *)
(***************************************************************************)
close ==
    IF fh = None
        THEN [fh |-> fh, disk |-> disk, ret |-> Raised("close", <<>>, "AttributeError")]
        ELSE [fh |-> None, disk |-> FlushTo(disk, The(fh)),
              ret |-> Returned("close", <<>>, <<>>)]

Close ==
    /\ fh' = close.fh
    /\ disk' = close.disk
    /\ ret' = close.ret
    /\ UNCHANGED <<chain, filename, df, unref, written, nSetup, nRecord>>
    /\ UNCHANGED notText

(***************************************************************************)
(* A file object that nothing refers to is finalised by the runtime at a   *)
(* time of the runtime's choosing (at once under reference counting, later *)
(* under a tracing collector); finalising it closes it, which writes its   *)
(* buffer out.                                                             *)
(***************************************************************************)
RemoveAt(s, i) == SubSeq(s, 1, i - 1) \o SubSeq(s, i + 1, Len(s))

Finalize(i) ==
    /\ i \in 1..Len(unref)
    /\ disk' = FlushTo(disk, unref[i])
    /\ unref' = RemoveAt(unref, i)
    /\ UNCHANGED <<chain, filename, fh, df, ret, written, nSetup, nRecord>>
    /\ UNCHANGED notText

(***************************************************************************)
(* pd.read_csv(filename): the first line names the columns, every other    *)
(* line is a row; a row with fewer fields than columns is filled up with   *)
(* NaN.  A cell that is the text of a number is read as that number, any   *)
(* other text stays a string.                                              *)
(***************************************************************************)
ParseCell(text) == IF text.kind = "num" THEN text ELSE [text EXCEPT !.kind = "str"]

ParseRow(line, ncols) ==
    [j \in 1..ncols |-> IF j <= Len(line) THEN ParseCell(line[j]) ELSE NaN]

read_csv(fn) ==
    IF fn = None THEN [df |-> None, exc |-> "ValueError"]
    ELSE IF ~disk[The(fn)].exists THEN [df |-> None, exc |-> "IOError"]
    ELSE IF disk[The(fn)].lines = <<>> THEN [df |-> None, exc |-> "EmptyDataError"]
    ELSE LET lines == disk[The(fn)].lines
             columns == SplitLine(Head(lines))
         IN  IF \E i \in 2..Len(lines) : Len(lines[i]) > Len(columns)
                 THEN [df |-> None, exc |-> "ParserError"]
                 ELSE [df |-> Some([columns |-> columns,
                                    rows |-> [i \in 1..(Len(lines) - 1) |->
                                        ParseRow(lines[i + 1], Len(columns))]]),
                       exc |-> ""]

\* A variant that reads the file on every call.
load_df_always == read_csv(filename)

\* Text._load_df: read the file only if nothing is cached.
load_df == IF df = None THEN read_csv(filename) ELSE [df |-> df, exc |-> ""]

NRows(d) == Len(The(d).rows)

\* Text.__len__
len ==
    IF filename = None THEN [df |-> df, ret |-> Returned("len", <<>>, <<0>>)]
    ELSE IF load_df.exc # "" THEN [df |-> df, ret |-> Raised("len", <<>>, load_df.exc)]
    ELSE [df |-> load_df.df, ret |-> Returned("len", <<>>, <<NRows(load_df.df)>>)]

LenOp ==
    /\ df' = len.df
    /\ ret' = len.ret
    /\ UNCHANGED <<chain, filename, fh, disk, unref, written, nSetup, nRecord>>
    /\ UNCHANGED notText

\* The position of a column label among the columns, 0 if it is not there.
ColumnOf(columns, label) ==
    IF \E j \in 1..Len(columns) : columns[j] = label
        THEN CHOOSE j \in 1..Len(columns) : columns[j] = label
        ELSE 0

HasColumns(d, v) ==
    \A k \in 1..Len(flat_names[v]) : ColumnOf(The(d).columns, flat_names[v][k]) # 0

\* self.df[self.flat_names[varname]].iloc[row]: the cells of one row in the
\* variable's columns (row counted from 1 here).
CellsOf(d, v, row) ==
    [k \in 1..Len(flat_names[v]) |->
        The(d).rows[row][ColumnOf(The(d).columns, flat_names[v][k])]]

\* iloc[idx]: idx counts from 0, a negative idx from the end.
InRange(idx, n) == -n <= idx /\ idx < n
RowAt(idx, n) == IF idx < 0 THEN n + idx + 1 ELSE idx + 1

\* Text.point(idx): the variables are taken in varnames order; the first
\* missing column raises KeyError, an idx outside the rows IndexError.
point(idx) ==
    LET l == load_df
        d == l.df
        missing == {i \in 1..Len(varnames) : ~HasColumns(d, varnames[i])}
    IN  IF l.exc # "" THEN [df |-> df, ret |-> Raised("point", <<idx>>, l.exc)]
        ELSE IF 1 \in missing THEN [df |-> d, ret |-> Raised("point", <<idx>>, "KeyError")]
        ELSE IF ~InRange(idx, NRows(d))
            THEN [df |-> d, ret |-> Raised("point", <<idx>>, "IndexError")]
        ELSE IF missing # {} THEN [df |-> d, ret |-> Raised("point", <<idx>>, "KeyError")]
        ELSE [df |-> d,
              ret |-> Returned("point", <<idx>>,
                  [i \in 1..Len(varnames) |->
                      CellsOf(d, varnames[i], RowAt(idx, NRows(d)))])]

PointOp(idx) ==
    /\ df' = point(idx).df
    /\ ret' = point(idx).ret
    /\ UNCHANGED <<chain, filename, fh, disk, unref, written, nSetup, nRecord>>
    /\ UNCHANGED notText

\* Text.get_values(varname), burn = 0 and thin = 1.  var_shapes holds the
\* arrays num.atleast_1d(shape), so (n,) + var_shapes[varname] adds n to
\* every entry of the shape: [n + 2] for y, the empty shape for x.  The
\* reshape of the n * size values raises ValueError unless the sizes agree.
RECURSIVE Product(_)
Product(s) == IF s = <<>> THEN 1 ELSE Head(s) * Product(Tail(s))

get_values(varname) ==
    LET l == load_df
        d == l.df
        n == NRows(d)
        shape == [k \in 1..Len(var_shapes[varname]) |-> n + var_shapes[varname][k]]
        values == Concat([r \in 1..n |-> CellsOf(d, varname, r)])
    IN  IF l.exc # "" THEN [df |-> df, ret |-> Raised("get_values", <<varname>>, l.exc)]
        ELSE IF ~HasColumns(d, varname)
            THEN [df |-> d, ret |-> Raised("get_values", <<varname>>, "KeyError")]
        ELSE IF Len(values) # Product(shape)
            THEN [df |-> d, ret |-> Raised("get_values", <<varname>>, "ValueError")]
        ELSE [df |-> d, ret |-> Returned("get_values", <<varname>>, values)]

GetValuesOp(varname) ==
    /\ df' = get_values(varname).df
    /\ ret' = get_values(varname).ret
    /\ UNCHANGED <<chain, filename, fh, disk, unref, written, nSetup, nRecord>>
    /\ UNCHANGED notText

(***************************************************************************)
(* The components a specification does not exercise stay as constructed.   *)
(***************************************************************************)
BijectionIdle ==
    /\ arrays = <<>>
    /\ ordering = None
    /\ bijection = None
    /\ a_flat = None
    /\ a_back = None

StationsIdle ==
    /\ stations = <<>>
    /\ blacklist = <<>>
    /\ st_before = <<>>
    /\ st_ret = Returned("init", <<>>, <<>>)

TracesIdle ==
    /\ data_traces = <<>>
    /\ deltat = None
    /\ tr_before = <<>>
    /\ tr_next = 1
    /\ tr_log = <<>>
    /\ tr_pc = "done"

(***************************************************************************)
(* The Text trace: the fields as BaseATMCMCTrace.__init__ and              *)
(* Text.__init__ assign them (no chain, no filename, no file object,       *)
(* nothing cached), in a directory whose chain files are absent or were    *)
(* written by a trace over other variables.                                *)
(***************************************************************************)
InitText ==
    /\ chain = None
    /\ filename = None
    /\ fh = None
    /\ df = None
    /\ disk \in [Chains -> {NoFile, OtherFile}]
    /\ unref = <<>>
    /\ ret = Returned("init", <<>>, <<>>)
    /\ written = [c \in Chains |-> IF disk[c].exists THEN OtherRows ELSE <<>>]
    /\ nSetup = 0
    /\ nRecord = 0
    /\ BijectionIdle
    /\ StationsIdle
    /\ TracesIdle

NextText ==
    \/ \E c \in Chains : Setup(c)
    \/ \E p \in Points : Record(p)
    \/ Close
    \/ \E i \in 1..MaxSetups : Finalize(i)
    \/ LenOp
    \/ \E idx \in -1..MaxRecords : PointOp(idx)
    \/ \E v \in {"x", "y"} : GetValuesOp(v)

SpecText == InitText /\ [][NextText]_vars

(***************************************************************************)
(* Claims about the Text trace (checked under SpecText).                   *)
(***************************************************************************)
\* Some file object the trace opened on chain file c is still open.
OpenOn(c) ==
    \/ fh # None /\ The(fh).chain = c
    \/ \E i \in 1..Len(unref) : unref[i].chain = c

\* C1: a setup call on an existing chain file whose header line, split on
\* commas, differs from the expected columns raises BackendError and leaves
\* every file of the directory exactly as it was.
C1_MismatchRaisesAndKeepsFile ==
    [][\A c \in Chains :
          (/\ nSetup' = nSetup + 1
           /\ filename' = Some(c)
           /\ disk[c].exists
           /\ disk[c].lines # <<>>
           /\ SplitLine(Head(disk[c].lines)) # cnames)
          => (ret' = Raised("setup", <<c>>, "BackendError") /\ disk' = disk)]_vars

\* C1 witness: setup has raised BackendError on a chain file written by a
\* trace over other variables, while the trace holds an open file object
\* of an earlier setup.
C1_Witness ==
    /\ ret.op = "setup" /\ ret.exc = "BackendError"
    /\ disk[ret.arg[1]] = OtherFile
    /\ fh # None

RecordedValues(row) ==
    [i \in 1..Len(row) |-> [k \in 1..Len(row[i].elems) |-> NumText(row[i].elems[k])]]

\* C3 (as claimed): every data row of a chain file of this trace has as many
\* comma-separated fields as the header has columns, and point(i) on the
\* closed, freshly loaded trace returns the values of the i-th record call.
C3_PointReproducesRecord ==
    /\ \A c \in Chains :
          (disk[c].exists /\ disk[c].lines # <<>> /\ Head(disk[c].lines) = JoinLine(cnames))
              => \A i \in 2..Len(disk[c].lines) :
                     Len(disk[c].lines[i]) = Len(Head(disk[c].lines))
    /\ (/\ ret.op = "point" /\ ret.exc = "" /\ ret.arg[1] >= 0
        /\ fh = None /\ unref = <<>>
        /\ df = read_csv(filename).df
        /\ NRows(df) = Len(written[The(filename)]))
       => ret.val = RecordedValues(written[The(filename)][ret.arg[1] + 1])

\* C4 (as claimed): len(trace) is 0 without a filename and otherwise the
\* number of rows recorded in the chain file so far.
C4_LenIsRowsRecorded ==
    (ret.op = "len" /\ ret.exc = "") =>
        ret.val = <<IF filename = None THEN 0 ELSE Len(written[The(filename)])>>

\* The value len has just returned: 0 without a filename, otherwise the
\* number of rows of the cached table.
LenOfCache ==
    (ret.op = "len" /\ ret.exc = "") =>
        /\ filename # None => df # None
        /\ ret.val = <<IF filename = None THEN 0 ELSE NRows(df)>>

\* C4 (amended): len(trace) is 0 if no filename has been associated;
\* otherwise it is the number of data rows the chain file held on disk when
\* the first successful read operation loaded it.  The loaded table is never
\* read again: rows recorded after the load, or still in the buffer of an
\* open file object at the load, are not counted.
C4_LenIsRowsLoaded ==
    [][/\ LenOfCache'
       /\ df # None => df' = df
       /\ (df = None /\ df' # None) => df' = read_csv(filename).df]_vars

\* C4 witness: len has returned 1 from the cache although two rows were
\* recorded and written out to the chain file, every file object closed.
C4_Witness ==
    /\ ret.op = "len" /\ ret.exc = "" /\ ret.val = <<1>>
    /\ filename # None /\ fh = None /\ unref = <<>>
    /\ Len(written[The(filename)]) = 2
    /\ Len(disk[The(filename)].lines) = 3

MaxArrays == 2     \* arrays in the caller's list

MantissaBits == 53 \* significand of the float64 array num.empty returns

Number(neg, bits) == [neg |-> neg, bits |-> bits]

Zero == Number(FALSE, <<>>)
One == Number(FALSE, <<1>>)

\* 2^e + low, for low < 2: the digit 1, e - 1 zeros and the digit low.
PowerOfTwoPlus(e, low) ==
    Number(FALSE, [i \in 1..(e + 1) |-> IF i = 1 THEN 1 ELSE IF i = e + 1 THEN low ELSE 0])

\* array.size
Size(array) == Product(array.shape)

Array(shape, dtype, data) == [shape |-> shape, dtype |-> dtype, data |-> data]

Shapes == { <<>>, <<0>>, <<2>>, <<1, 2>> }

Dtypes == {"int64", "float64", "bool"}

\* The element values drawn for each dtype: all of them are values the
\* dtype holds exactly.
ValuesOf(dtype) ==
    IF dtype = "int64" THEN {Number(TRUE, <<1, 1>>), PowerOfTwoPlus(MantissaBits, 1)}
    ELSE IF dtype = "float64" THEN {One, PowerOfTwoPlus(MantissaBits, 0)}
    ELSE {Zero, One}

ArrayPool ==
    UNION { { Array(shape, dtype, data) :
                data \in [1..Product(shape) -> ValuesOf(dtype)] } :
            <<shape, dtype>> \in Shapes \X Dtypes }

\* DataMap = collections.namedtuple('DataMap', 'list_ind, slc, shp, dtype');
\* slice(start, stop) is [start, stop].
DataMap(list_ind, slc, shp, dtype) ==
    [list_ind |-> list_ind, slc |-> slc, shp |-> shp, dtype |-> dtype]

\* A variant, dim += len(array): the first dimension instead of the size.
NextDimByLen(dim, array) ==
    dim + (IF array.shape = <<>> THEN 1 ELSE array.shape[1])

\* dim += array.size
NextDim(dim, array) == dim + Size(array)

\* The loop of ListArrayOrdering.__init__ over the arrays not yet seen.
RECURSIVE OrderingLoop(_, _, _, _)
OrderingLoop(rest, vmap, dim, count) ==
    IF rest = <<>>
        THEN [vmap |-> vmap, dimensions |-> dim]
        ELSE LET array == Head(rest)
                 slc == [start |-> dim, stop |-> dim + Size(array)]
             IN  OrderingLoop(Tail(rest),
                              Append(vmap, DataMap(count, slc, array.shape, array.dtype)),
                              NextDim(dim, array), count + 1)

ListArrayOrdering(list_arrays) == OrderingLoop(list_arrays, <<>>, 0, 0)

(***************************************************************************)
(* Conversions between the element types and float64.                      *)
(***************************************************************************)
\* bits + 1, as binary digits.
RECURSIVE Increment(_)
Increment(bits) ==
    IF bits = <<>> THEN <<1>>
    ELSE IF bits[Len(bits)] = 0 THEN SubSeq(bits, 1, Len(bits) - 1) \o <<1>>
    ELSE Increment(SubSeq(bits, 1, Len(bits) - 1)) \o <<0>>

Zeros(n) == [i \in 1..n |-> 0]

\* An integer as the nearest float64, ties to the even significand: the
\* first MantissaBits digits are kept, the rest rounded away.
RoundToFloat64(v) ==
    LET n == Len(v.bits)
        kept == SubSeq(v.bits, 1, MantissaBits)
        rest == SubSeq(v.bits, MantissaBits + 1, n)
        tail == SubSeq(rest, 2, Len(rest))
        up == rest[1] = 1 /\ (tail # Zeros(Len(tail)) \/ kept[MantissaBits] = 1)
    IN  IF n <= MantissaBits THEN v
        ELSE Number(v.neg, (IF up THEN Increment(kept) ELSE kept) \o Zeros(n - MantissaBits))

\* a_list[slc] = x: an element of dtype is stored into the float64 array.
ToFloat64(dtype, v) == IF dtype = "int64" THEN RoundToFloat64(v) ELSE v

\* .astype(dtype) of a float64 element: a bool is whether it is not zero;
\* the integral values met here are int64 values.
AsType(dtype, f) ==
    IF dtype = "bool" THEN (IF f.bits = <<>> THEN Zero ELSE One) ELSE f

\* num.empty(n): n elements holding whatever the memory held.
Garbage == Number(FALSE, <<2>>)

Empty(n) == [i \in 1..n |-> Garbage]

\* a[slc] = values, for a slice inside a and as long as values
SetSlice(a, slc, values) ==
    [i \in 1..Len(a) |->
        IF slc.start < i /\ i <= slc.stop THEN values[i - slc.start] ELSE a[i]]

\* a[slc]
GetSlice(a, slc) == SubSeq(a, slc.start + 1, slc.stop)

\* The loop of fmap over the entries of ordering.vmap not yet seen.
RECURSIVE FmapLoop(_, _, _)
FmapLoop(vmap, list_arrays, a_list) ==
    IF vmap = <<>> THEN a_list
    ELSE LET m == Head(vmap)
             src == list_arrays[m.list_ind + 1]
             ravel == [k \in 1..Len(src.data) |-> ToFloat64(src.dtype, src.data[k])]
         IN  FmapLoop(Tail(vmap), list_arrays, SetSlice(a_list, m.slc, ravel))

\* ListToArrayBijection.fmap
fmap(bij, list_arrays) ==
    FmapLoop(bij.ordering.vmap, list_arrays, Empty(bij.ordering.dimensions))

\* The loop of rmap over the entries of ordering.vmap not yet seen.
RECURSIVE RmapLoop(_, _, _)
RmapLoop(vmap, array, a_list) ==
    IF vmap = <<>> THEN a_list
    ELSE LET m == Head(vmap)
             part == GetSlice(array, m.slc)
             new == Array(m.shp, m.dtype,
                          [k \in 1..Len(part) |-> AsType(m.dtype, part[k])])
         IN  RmapLoop(Tail(vmap), array, [a_list EXCEPT ![m.list_ind + 1] = new])

\* ListToArrayBijection.rmap: a_list is a copy of the list self.list_arrays,
\* so writing its positions leaves self.list_arrays as it is.
rmap(bij, array) ==
    [a_list |-> RmapLoop(bij.ordering.vmap, array, bij.list_arrays),
     list_arrays |-> bij.list_arrays]

MakeOrdering ==
    /\ ordering = None
    /\ ordering' = Some(ListArrayOrdering(arrays))
    /\ UNCHANGED <<arrays, bijection, a_flat, a_back>>
    /\ UNCHANGED notBijection

MakeBijection ==
    /\ ordering # None
    /\ bijection = None
    /\ bijection' = Some([ordering |-> The(ordering), list_arrays |-> arrays])
    /\ UNCHANGED <<arrays, ordering, a_flat, a_back>>
    /\ UNCHANGED notBijection

Fmap ==
    /\ bijection # None
    /\ a_flat = None
    /\ a_flat' = Some(fmap(The(bijection), arrays))
    /\ UNCHANGED <<arrays, ordering, bijection, a_back>>
    /\ UNCHANGED notBijection

Rmap ==
    /\ bijection # None
    /\ a_flat # None
    /\ a_back = None
    /\ a_back' = Some(rmap(The(bijection), The(a_flat)).a_list)
    /\ bijection' = Some([The(bijection) EXCEPT
                             !.list_arrays = rmap(The(bijection), The(a_flat)).list_arrays])
    /\ UNCHANGED <<arrays, ordering, a_flat>>
    /\ UNCHANGED notBijection

TextIdle ==
    /\ chain = None
    /\ filename = None
    /\ fh = None
    /\ df = None
    /\ disk = [c \in Chains |-> NoFile]
    /\ unref = <<>>
    /\ ret = Returned("init", <<>>, <<>>)
    /\ written = [c \in Chains |-> <<>>]
    /\ nSetup = 0
    /\ nRecord = 0

SeqsUpTo(S, n) == UNION { [1..k -> S] : k \in 0..n }

InitBijection ==
    /\ arrays \in SeqsUpTo(ArrayPool, MaxArrays)
    /\ ordering = None
    /\ bijection = None
    /\ a_flat = None
    /\ a_back = None
    /\ TextIdle
    /\ StationsIdle
    /\ TracesIdle

NextBijection ==
    \/ MakeOrdering
    \/ MakeBijection
    \/ Fmap
    \/ Rmap

SpecBijection == InitBijection /\ [][NextBijection]_vars

(***************************************************************************)
(* Claims about the ordering and the bijection (under SpecBijection).      *)
(***************************************************************************)
\* C5 (as claimed): rmap(fmap(arrays)) equals arrays position by position
\* in values, shape and dtype, and leaves the stored template list_arrays
\* as it was.
C5_RoundTrip ==
    a_back # None =>
        /\ The(a_back) = arrays
        /\ The(bijection).list_arrays = arrays

\* The flat indices a slice covers.
Covered(slc) == {i \in 0..(slc.stop - 1) : slc.start <= i}

RECURSIVE SumSizes(_)
SumSizes(list_arrays) ==
    IF list_arrays = <<>> THEN 0 ELSE Size(Head(list_arrays)) + SumSizes(Tail(list_arrays))

\* C8: vmap has one DataMap per array, in input order, list_ind being the
\* position; the first slice starts at 0, each slice starts where the one
\* before stops and is as long as its array's size; the slices are pairwise
\* disjoint and cover exactly [0, dimensions), dimensions being the sum of
\* the sizes.
C8_SlicesContiguous ==
    ordering # None =>
        LET vmap == The(ordering).vmap
            dimensions == The(ordering).dimensions
            n == Len(arrays)
        IN  /\ Len(vmap) = n
            /\ \A i \in 1..n :
                  /\ vmap[i].list_ind = i - 1
                  /\ vmap[i].shp = arrays[i].shape
                  /\ vmap[i].dtype = arrays[i].dtype
                  /\ vmap[i].slc.start = (IF i = 1 THEN 0 ELSE vmap[i - 1].slc.stop)
                  /\ vmap[i].slc.stop - vmap[i].slc.start = Size(arrays[i])
            /\ \A i, j \in 1..n :
                  i # j => Covered(vmap[i].slc) \cap Covered(vmap[j].slc) = {}
            /\ UNION {Covered(vmap[i].slc) : i \in 1..n} = 0..(dimensions - 1)
            /\ dimensions = SumSizes(arrays)

\* C8 witness: an ordering built over a zero-size array followed by a
\* two-dimensional one.
C8_Witness ==
    /\ ordering # None
    /\ Len(arrays) = 2
    /\ Size(arrays[1]) = 0
    /\ arrays[2].shape = <<1, 2>>
    /\ The(ordering).dimensions = 2

(***************************************************************************)
(* utility.py: apply_station_blacklist(stations, blacklist).               *)
(* A station is [station |-> name]; the list is changed in place.          *)
(***************************************************************************)
MaxStations == 3   \* stations in the caller's list
MaxBlacklist == 2  \* entries of the blacklist

StationNames == {"AAA", "BBB", "CCC"}

Station(name) == [station |-> name]

\* names.index(x), counted from 0; -1 stands for the ValueError of a name
\* that is not in the list.
Index(names, x) ==
    IF \E i \in 1..Len(names) : names[i] = x
        THEN (CHOOSE i \in 1..Len(names) :
                  names[i] = x /\ \A j \in 1..(i - 1) : names[j] # x) - 1
        ELSE -1

\* indexes.sort(reverse=True)
RECURSIVE SortReverse(_)
SortReverse(s) ==
    IF s = <<>> THEN <<>>
    ELSE LET m == CHOOSE i \in 1..Len(s) : \A j \in 1..Len(s) : s[i] >= s[j]
         IN  <<s[m]>> \o SortReverse(RemoveAt(s, m))

\* for ind in indexes: stations.pop(ind).  A pop past the end raises
\* IndexError and leaves the list as the pops before it made it.
RECURSIVE PopLoop(_, _)
PopLoop(list, indexes) ==
    IF indexes = <<>> THEN [stations |-> list, exc |-> ""]
    ELSE IF Head(indexes) >= Len(list) THEN [stations |-> list, exc |-> "IndexError"]
    ELSE PopLoop(RemoveAt(list, Head(indexes) + 1), Tail(indexes))

\* A variant that pops each station as soon as its name is found.
RECURSIVE PopAsFound(_, _)
PopAsFound(list, names) ==
    IF names = <<>> THEN [stations |-> list, exc |-> ""]
    ELSE LET ind == Index([i \in 1..Len(list) |-> list[i].station], Head(names))
         IN  IF ind = -1 THEN [stations |-> list, exc |-> "ValueError"]
             ELSE PopAsFound(RemoveAt(list, ind + 1), Tail(names))

apply_station_blacklist_as_found(list, names) == PopAsFound(list, names)

\* apply_station_blacklist: every index is looked up before any pop.
apply_station_blacklist(list, names) ==
    LET station_names == [i \in 1..Len(list) |-> list[i].station]
        indexes == [k \in 1..Len(names) |-> Index(station_names, names[k])]
    IN  IF \E k \in 1..Len(names) : indexes[k] = -1
            THEN [stations |-> list, exc |-> "ValueError"]
            ELSE PopLoop(list, SortReverse(indexes))

ApplyStationBlacklist ==
    /\ st_ret.op = "init"
    /\ stations' = apply_station_blacklist(stations, blacklist).stations
    /\ st_ret' = IF apply_station_blacklist(stations, blacklist).exc = ""
                     THEN Returned("apply_station_blacklist", <<>>, stations')
                     ELSE Raised("apply_station_blacklist", <<>>,
                                 apply_station_blacklist(stations, blacklist).exc)
    /\ UNCHANGED <<blacklist, st_before>>
    /\ UNCHANGED notStations

InitStations ==
    /\ stations \in {[i \in 1..Len(ns) |-> Station(ns[i])] :
                        ns \in SeqsUpTo(StationNames, MaxStations)}
    /\ st_before = stations
    /\ blacklist \in SeqsUpTo(StationNames, MaxBlacklist)
    /\ st_ret = Returned("init", <<>>, <<>>)
    /\ TextIdle
    /\ BijectionIdle
    /\ TracesIdle

NextStations == ApplyStationBlacklist

SpecStations == InitStations /\ [][NextStations]_vars

(***************************************************************************)
(* Claims about apply_station_blacklist (under SpecStations).              *)
(***************************************************************************)
Names(list) == [i \in 1..Len(list) |-> list[i].station]

InBlacklist(name) == \E k \in 1..Len(blacklist) : blacklist[k] = name

RECURSIVE NotBlacklisted(_)
NotBlacklisted(list) ==
    IF list = <<>> THEN <<>>
    ELSE (IF InBlacklist(Head(list).station) THEN <<>> ELSE <<Head(list)>>)
             \o NotBlacklisted(Tail(list))

AllListed == \A k \in 1..Len(blacklist) : Index(Names(st_before), blacklist[k]) # -1

\* C6 (as claimed): when every blacklist entry names a station of the list,
\* the call returns exactly the stations whose name is not in the blacklist,
\* in their original order.
C6_RemovesBlacklisted ==
    (st_ret.op # "init" /\ AllListed) =>
        /\ st_ret.exc = ""
        /\ st_ret.val = NotBlacklisted(st_before)

\* C10: when some blacklist entry names no station of the list, the call
\* raises ValueError and the caller's list is exactly as it was.
C10_MissingNameKeepsList ==
    (st_ret.op # "init" /\ ~AllListed) =>
        /\ st_ret.exc = "ValueError"
        /\ stations = st_before

\* C10 witness: the call has raised on a blacklist whose first entry names
\* a station of the list and whose second names none.
C10_Witness ==
    /\ st_ret.exc = "ValueError"
    /\ Len(blacklist) = 2
    /\ Index(Names(st_before), blacklist[1]) # -1
    /\ Index(Names(st_before), blacklist[2]) = -1
    /\ Len(stations) = 3

(***************************************************************************)
(* utility.py: downsample_traces(data_traces, deltat).                     *)
(* A waveform trace is [deltat, decimable]: its sampling interval, and     *)
(* whether tr.downsample_to can reach the target interval from it          *)
(* (otherwise it raises util.UnavailableDecimation).                       *)
(***************************************************************************)
MaxTraces == 3     \* traces in the caller's list

TraceDeltats == {1, 2}

TargetDeltats == {4}

WaveformTraces == [deltat : TraceDeltats, decimable : BOOLEAN]

\* tr.downsample_to(deltat, snap=True, allow_upsample_max=5): the trace
\* resampled to the target, or UnavailableDecimation and the trace as it was.
downsample_to(tr, target) ==
    IF tr.decimable
        THEN [tr |-> [tr EXCEPT !.deltat = target], exc |-> ""]
        ELSE [tr |-> tr, exc |-> "UnavailableDecimation"]

\* A variant whose handler lets the exception end the call.
OnUnavailableReraise(k) == [tr_pc |-> "raised", tr_next |-> k]

\* except util.UnavailableDecimation, e: print(...); continue
OnUnavailable(k) == [tr_pc |-> "loop", tr_next |-> k + 1]

\* One pass of the for loop, on the trace at position tr_next.
Iterate ==
    /\ tr_pc = "loop"
    /\ tr_next <= Len(data_traces)
    /\ LET tr == data_traces[tr_next] IN
       IF deltat = None
           THEN /\ tr_next' = tr_next + 1
                /\ UNCHANGED <<data_traces, tr_log, tr_pc>>
           ELSE LET r == downsample_to(tr, The(deltat)) IN
                /\ tr_log' = Append(tr_log, tr_next)
                /\ data_traces' = [data_traces EXCEPT ![tr_next] = r.tr]
                /\ IF r.exc = ""
                       THEN tr_next' = tr_next + 1 /\ tr_pc' = "loop"
                       ELSE /\ tr_next' = OnUnavailable(tr_next).tr_next
                            /\ tr_pc' = OnUnavailable(tr_next).tr_pc
    /\ UNCHANGED <<deltat, tr_before>>
    /\ UNCHANGED notTraces

\* The list is exhausted: the function returns.
Return ==
    /\ tr_pc = "loop"
    /\ tr_next > Len(data_traces)
    /\ tr_pc' = "done"
    /\ UNCHANGED <<data_traces, deltat, tr_before, tr_next, tr_log>>
    /\ UNCHANGED notTraces

InitTraces ==
    /\ data_traces \in SeqsUpTo(WaveformTraces, MaxTraces)
    /\ deltat \in {None} \cup {Some(d) : d \in TargetDeltats}
    /\ tr_before = data_traces
    /\ tr_next = 1
    /\ tr_log = <<>>
    /\ tr_pc = "loop"
    /\ TextIdle
    /\ BijectionIdle
    /\ StationsIdle

NextTraces ==
    \/ Iterate
    \/ Return

SpecTraces == InitTraces /\ [][NextTraces]_vars

(***************************************************************************)
(* Claims about downsample_traces (under SpecTraces).                      *)
(***************************************************************************)
\* C7: with a target interval given, downsample_to is tried on every trace
\* once, in list order, whichever traces raise UnavailableDecimation; the
\* call does not raise and returns only after the last trace; a trace that
\* raised keeps its sampling interval and its place in the list, and the
\* traces after it are still resampled.
C7_BatchNeverAborts ==
    deltat # None =>
        /\ tr_pc # "raised"
        /\ tr_log = [k \in 1..(tr_next - 1) |-> k]
        /\ tr_pc = "done" => tr_next = Len(tr_before) + 1
        /\ tr_pc = "loop" => tr_next <= Len(tr_before) + 1
        /\ Len(data_traces) = Len(tr_before)
        /\ \A k \in 1..Len(tr_before) :
              IF k < tr_next /\ tr_before[k].decimable
                  THEN data_traces[k] = [tr_before[k] EXCEPT !.deltat = The(deltat)]
                  ELSE data_traces[k] = tr_before[k]

\* C7 witness: the call has returned from a list whose first trace raised
\* and whose later traces were resampled to the target.
C7_Witness ==
    /\ tr_pc = "done"
    /\ deltat # None
    /\ Len(tr_before) = 3
    /\ ~tr_before[1].decimable
    /\ data_traces[1] = tr_before[1]
    /\ tr_before[2].decimable /\ data_traces[2].deltat = The(deltat)
    /\ tr_before[3].decimable /\ data_traces[3].deltat = The(deltat)
    /\ tr_log = <<1, 2, 3>>

====
